---- MODULE Spec2Model ----
(***************************************************************************)
(* Model of inventory_system.py: the Product hierarchy (Electronics,      *)
(* Grocery, Clothing), the Inventory store and its JSON persistence.      *)
(*                                                                         *)
(* An object is a record whose field cls is its class name.  The store    *)
(* Inventory._products is a Python dict: a sequence of [key, val] entries *)
(* in insertion order.  Prices are kept in cents.  A date is the string   *)
(* the program stores; strptime turns it into a day number.               *)
(***************************************************************************)
EXTENDS Integers, Sequences, FiniteSets, TLC

\* ---------------------------------------------------------------- bounds
\* Largest quantity_in_stock the model lets a product reach.
MaxQty == 1

\* Product ids handed to the operations.
Ids == {"E001", "G001"}
\* Quantities handed to sell_product and restock_product: any sign.
Amounts == (0 - 1) .. (MaxQty + 1)
\* The dates that exist, in calendar order; day d is DateTable[d].
DateTable == <<"2024-12-31", "2025-01-01", "2025-01-02">>
\* The days the clock shows, numbered from 1.
Days == 1 .. Len(DateTable)
MaxDay == Len(DateTable)
\* Expiry dates given to new Grocery products.
ExpiryDates == {DateTable[1], DateTable[2]}

\* ------------------------------------------------------------ exceptions
NoError == "none"
InventoryError == "InventoryError"
DuplicateProductIDError == "DuplicateProductIDError"
OutOfStockError == "OutOfStockError"
InvalidProductDataError == "InvalidProductDataError"
\* The spec's name for a missing id; no class of this name exists in the code.
ProductNotFoundError == "ProductNotFoundError"

\* --------------------------------------------------------------- objects
Electronics(product_id, name, price, quantity_in_stock, warranty_years, brand) ==
    [cls |-> "Electronics", product_id |-> product_id, name |-> name,
     price |-> price, quantity_in_stock |-> quantity_in_stock,
     warranty_years |-> warranty_years, brand |-> brand]

Grocery(product_id, name, price, quantity_in_stock, expiry_date) ==
    [cls |-> "Grocery", product_id |-> product_id, name |-> name,
     price |-> price, quantity_in_stock |-> quantity_in_stock,
     expiry_date |-> expiry_date]

Clothing(product_id, name, price, quantity_in_stock, size, material) ==
    [cls |-> "Clothing", product_id |-> product_id, name |-> name,
     price |-> price, quantity_in_stock |-> quantity_in_stock,
     size |-> size, material |-> material]

\* Product.restock: quantity_in_stock += amount, with no check on amount.
\* Variant: the stock is set to the amount instead of raised by it.
restock_eq(p, amount) == [p EXCEPT !.quantity_in_stock = amount]
restock(p, amount) == [p EXCEPT !.quantity_in_stock = @ + amount]

\* Product.sell: raises when quantity > stock, else decrements.
\* Variant: a sale of the whole stock is refused too.
sell_ge(p, quantity) ==
    IF quantity >= p.quantity_in_stock
    THEN [err |-> OutOfStockError, p |-> p]
    ELSE [err |-> NoError,
          p |-> [p EXCEPT !.quantity_in_stock = @ - quantity]]
sell(p, quantity) ==
    IF quantity > p.quantity_in_stock
    THEN [err |-> OutOfStockError, p |-> p]
    ELSE [err |-> NoError,
          p |-> [p EXCEPT !.quantity_in_stock = @ - quantity]]

\* datetime.strptime(s, "%Y-%m-%d").date(), as a day number.
strptime(s) == CHOOSE d \in 1 .. Len(DateTable) : DateTable[d] = s

\* Grocery.is_expired; now is what datetime.today().date() returns at the call.
is_expired(p, now) == strptime(p.expiry_date) < now

\* Product.to_dict: the class name under "type" and the four common fields.
Product_to_dict(p) ==
    [type |-> p.cls, product_id |-> p.product_id, name |-> p.name,
     price |-> p.price, quantity_in_stock |-> p.quantity_in_stock]
\* dict.update(other): other's entries win.
update(data, other) == other @@ data
\* to_dict of each subclass: super().to_dict() updated with its own fields.
\* Variant: a subclass that does not add its own fields.
to_dict_no_extra(p) == Product_to_dict(p)
to_dict(p) ==
    CASE p.cls = "Electronics" ->
            update(Product_to_dict(p),
                   [warranty_years |-> p.warranty_years, brand |-> p.brand])
      [] p.cls = "Grocery" ->
            update(Product_to_dict(p), [expiry_date |-> p.expiry_date])
      [] p.cls = "Clothing" ->
            update(Product_to_dict(p),
                   [size |-> p.size, material |-> p.material])

\* ------------------------------------------------------------------ dict
Keys(d) == {d[i].key : i \in 1 .. Len(d)}
Has(d, k) == k \in Keys(d)
Get(d, k) == (CHOOSE e \in {d[i] : i \in 1 .. Len(d)} : e.key = k).val
Values(d) == [i \in 1 .. Len(d) |-> d[i].val]
\* d[k] = v: replaces the value of an existing key in place, else appends.
\* Variant: an assignment that never replaces an existing key.
DictSetAppend(d, k, v) == Append(d, [key |-> k, val |-> v])
DictSet(d, k, v) ==
    IF Has(d, k)
    THEN [i \in 1 .. Len(d) |->
            IF d[i].key = k THEN [key |-> k, val |-> v] ELSE d[i]]
    ELSE Append(d, [key |-> k, val |-> v])
\* d.pop(k, None) and del d[k].
DictPop(d, k) == SelectSeq(d, LAMBDA e : e.key # k)

\* ------------------------------------------------------------- Inventory
\* Variant: no duplicate check before the insertion.
add_product_nocheck(store, product) ==
    [err |-> NoError,
     products |-> DictSet(store, product.product_id, product)]
add_product(store, product) ==
    IF Has(store, product.product_id)
    THEN [err |-> DuplicateProductIDError, products |-> store]
    ELSE [err |-> NoError,
          products |-> DictSet(store, product.product_id, product)]

remove_product(store, product_id) == DictPop(store, product_id)

list_all_products(store) == Values(store)

\* Variant: an absent id is ignored instead of raised.
sell_product_silent(store, product_id, quantity) ==
    IF ~Has(store, product_id)
    THEN [err |-> NoError, products |-> store]
    ELSE LET r == sell(Get(store, product_id), quantity)
         IN  [err |-> r.err,
              products |-> IF r.err = NoError
                           THEN DictSet(store, product_id, r.p)
                           ELSE store]
sell_product(store, product_id, quantity) ==
    IF ~Has(store, product_id)
    THEN [err |-> InventoryError, products |-> store]
    ELSE LET r == sell(Get(store, product_id), quantity)
         IN  [err |-> r.err,
              products |-> IF r.err = NoError
                           THEN DictSet(store, product_id, r.p)
                           ELSE store]

restock_product(store, product_id, quantity) ==
    IF ~Has(store, product_id)
    THEN [err |-> InventoryError, products |-> store]
    ELSE [err |-> NoError,
          products |-> DictSet(store, product_id,
                               restock(Get(store, product_id), quantity))]

\* now[i] is the date the clock shows while entry i is examined: is_expired
\* reads the clock afresh for every Grocery.
remove_expired_products(store, now) ==
    LET to_remove == {store[i].key : i \in
                        {j \in 1 .. Len(store) :
                            /\ store[j].val.cls = "Grocery"
                            /\ is_expired(store[j].val, now[j])}}
    IN  SelectSeq(store, LAMBDA e : e.key \notin to_remove)

\* ----------------------------------------------------------- persistence
\* A file is absent, holds text that is not JSON, or holds a JSON array of
\* objects; an object is the sequence of its <<key, value>> members.
KeyOrder ==
    <<"type", "product_id", "name", "price", "quantity_in_stock",
      "warranty_years", "brand", "expiry_date", "size", "material">>
\* The members of a dict in the order to_dict inserted them.
Members(d) ==
    LET ks == SelectSeq(KeyOrder, LAMBDA k : k \in DOMAIN d)
    IN  [i \in 1 .. Len(ks) |-> <<ks[i], d[ks[i]]>>]
\* The dict a JSON object decodes to: a repeated key keeps its last value.
Object(members) ==
    [k \in {members[i][1] : i \in 1 .. Len(members)} |->
        LET last_i == CHOOSE i \in 1 .. Len(members) :
                        /\ members[i][1] = k
                        /\ \A j \in (i + 1) .. Len(members) : members[j][1] # k
        IN  members[last_i][2]]
\* json.dump(data, f), data a list of dicts.
json_dump(data) ==
    [kind |-> "json", items |-> [i \in 1 .. Len(data) |-> Members(data[i])]]
\* open(filename) and json.load(f).
json_load(text) ==
    IF text.kind = "json"
    THEN [err |-> NoError,
          data |-> [i \in 1 .. Len(text.items) |-> Object(text.items[i])]]
    ELSE [err |-> IF text.kind = "missing" THEN "FileNotFoundError"
                  ELSE "JSONDecodeError",
          data |-> <<>>]

save_to_file(store) ==
    json_dump([i \in 1 .. Len(store) |-> to_dict(store[i].val)])

\* Cls(**data): a TypeError unless data has exactly the constructor's
\* parameters as keys.
Params(cls_name) ==
    CASE cls_name = "Electronics" ->
            {"product_id", "name", "price", "quantity_in_stock",
             "warranty_years", "brand"}
      [] cls_name = "Grocery" ->
            {"product_id", "name", "price", "quantity_in_stock", "expiry_date"}
      [] cls_name = "Clothing" ->
            {"product_id", "name", "price", "quantity_in_stock",
             "size", "material"}
_create_product_from_dict(cls_name, data) ==
    IF cls_name \notin {"Electronics", "Grocery", "Clothing"}
    THEN [err |-> InvalidProductDataError]
    ELSE IF DOMAIN data # Params(cls_name)
    THEN [err |-> "TypeError"]
    ELSE [err |-> NoError,
          product |->
            CASE cls_name = "Electronics" ->
                    Electronics(data.product_id, data.name, data.price,
                                data.quantity_in_stock, data.warranty_years,
                                data.brand)
              [] cls_name = "Grocery" ->
                    Grocery(data.product_id, data.name, data.price,
                            data.quantity_in_stock, data.expiry_date)
              [] cls_name = "Clothing" ->
                    Clothing(data.product_id, data.name, data.price,
                             data.quantity_in_stock, data.size,
                             data.material)]

\* The for loop of load_from_file from item i on: each product is stored as
\* soon as it is built; an exception leaves the loop with the store as it is.
RECURSIVE load_items(_, _, _)
load_items(store, data, i) ==
    IF i > Len(data)
    THEN [err |-> NoError, products |-> store]
    ELSE LET item == data[i]
         IN  IF "type" \notin DOMAIN item
             THEN [err |-> "KeyError", products |-> store]
             ELSE LET cls_name == item.type
                      rest == [k \in DOMAIN item \ {"type"} |-> item[k]]
                      r == _create_product_from_dict(cls_name, rest)
                  IN  IF r.err # NoError
                      THEN [err |-> r.err, products |-> store]
                      ELSE load_items(
                             DictSet(store, r.product.product_id, r.product),
                             data, i + 1)

\* Every exception inside the try is re-raised as InvalidProductDataError.
load_from_file(store, text) ==
    LET j == json_load(text)
        r == IF j.err # NoError
             THEN [err |-> j.err, products |-> store]
             ELSE load_items(store, j.data, 1)
    IN  [err |-> IF r.err = NoError THEN NoError ELSE InvalidProductDataError,
         products |-> r.products]

\* ---------------------------------------------------------------- inputs
\* Products built by the caller and handed to add_product: stock >= 0.
NewProducts ==
    UNION {
        {Electronics(id, "Phone", 99999, 1, 2, "Apple"),
         Clothing(id, "Shirt", 0, 0, "M", "Cotton")}
        \cup {Grocery(id, "Milk", 350, 1, e) : e \in ExpiryDates}
        : id \in Ids}

\* JSON objects found in files: three that to_dict writes (the first and the
\* third carry the same id), one with an unknown "type", and a Grocery
\* without its expiry_date.
RecElectronics ==
    Members(to_dict(Electronics("E001", "Phone", 99999, 1, 2, "Apple")))
RecGrocery ==
    Members(to_dict(Grocery("G001", "Milk", 350, 0, DateTable[2])))
RecClothing ==
    Members(to_dict(Clothing("E001", "Shirt", 0, MaxQty, "M", "Cotton")))
RecUnknownType ==
    Members([type |-> "Toy", product_id |-> "G001", name |-> "Ball",
             price |-> 500, quantity_in_stock |-> 1])
RecMalformed ==
    Members(Product_to_dict(Grocery("G001", "Milk", 350, 1, DateTable[1])))
\* The files load_from_file is given.
FileData ==
    {[kind |-> "missing"], [kind |-> "garbage"]}
    \cup {[kind |-> "json", items |-> items] : items \in
            {<<>>, <<RecElectronics>>, <<RecGrocery, RecClothing>>,
             <<RecElectronics, RecClothing>>, <<RecUnknownType>>,
             <<RecElectronics, RecUnknownType>>, <<RecMalformed>>,
             <<RecGrocery, RecMalformed>>}}

\* ----------------------------------------------------------------- state
VARIABLES
    products,   \* Inventory._products
    today,      \* the day datetime.today() returns
    prev,       \* _products as it was when the last call began
    last        \* the last call: its name, arguments and outcome

vars == <<products, today, prev, last>>

\* Stock stays within the range the model explores.
InRange(store) ==
    \A i \in 1 .. Len(store) :
        store[i].val.quantity_in_stock \in (0 - 1) .. MaxQty

Init ==
    /\ products = <<>>
    /\ today \in Days
    /\ prev = <<>>
    /\ last = [op |-> "init"]

AddProduct ==
    \E product \in NewProducts :
        LET r == add_product(products, product)
        IN  /\ products' = r.products
            /\ prev' = products
            /\ last' = [op |-> "add_product", product |-> product,
                        err |-> r.err]
            /\ UNCHANGED today

RemoveProduct ==
    \E product_id \in Ids :
        /\ products' = remove_product(products, product_id)
        /\ prev' = products
        /\ last' = [op |-> "remove_product", product_id |-> product_id]
        /\ UNCHANGED today

SellProduct ==
    \E product_id \in Ids, quantity \in Amounts :
        LET r == sell_product(products, product_id, quantity)
        IN  /\ InRange(r.products)
            /\ products' = r.products
            /\ prev' = products
            /\ last' = [op |-> "sell_product", product_id |-> product_id,
                        quantity |-> quantity, err |-> r.err]
            /\ UNCHANGED today

RestockProduct ==
    \E product_id \in Ids, quantity \in Amounts :
        LET r == restock_product(products, product_id, quantity)
        IN  /\ InRange(r.products)
            /\ products' = r.products
            /\ prev' = products
            /\ last' = [op |-> "restock_product", product_id |-> product_id,
                        quantity |-> quantity, err |-> r.err]
            /\ UNCHANGED today

\* The clock may pass midnight while the call runs: now[i] never decreases.
RemoveExpiredProducts ==
    \E now \in [1 .. Len(products) -> today .. MaxDay] :
        /\ \A i \in 1 .. (Len(products) - 1) : now[i] <= now[i + 1]
        /\ products' = remove_expired_products(products, now)
        /\ today' = IF Len(products) = 0 THEN today ELSE now[Len(products)]
        /\ prev' = products
        /\ last' = [op |-> "remove_expired_products", start |-> today,
                    now |-> now]

SaveToFile ==
    /\ last' = [op |-> "save_to_file", out |-> save_to_file(products)]
    /\ prev' = products
    /\ UNCHANGED <<products, today>>

LoadFromFile ==
    \E text \in FileData :
        LET r == load_from_file(products, text)
        IN  /\ products' = r.products
            /\ prev' = products
            /\ last' = [op |-> "load_from_file", text |-> text,
                        err |-> r.err]
            /\ UNCHANGED today

\* Midnight passes between two calls.
Tick ==
    /\ today < MaxDay
    /\ today' = today + 1
    /\ prev' = products
    /\ last' = [op |-> "tick"]
    /\ UNCHANGED products

Next ==
    \/ AddProduct
    \/ RemoveProduct
    \/ SellProduct
    \/ RestockProduct
    \/ RemoveExpiredProducts
    \/ SaveToFile
    \/ LoadFromFile
    \/ Tick

Spec == Init /\ [][Next]_vars

\* ----------------------------------------------------------------- types
TypeOK ==
    /\ today \in Days
    /\ InRange(products)
    /\ \A i \in 1 .. Len(products) : products[i].key \in Ids

\* ---------------------------------------------------------------- claims
Stock(store, product_id) == Get(store, product_id).quantity_in_stock

\* C1: every stored product has quantity_in_stock >= 0, whatever integer
\* arguments the operations were called with.
C1_StockNeverNegative ==
    \A i \in 1 .. Len(products) : products[i].val.quantity_in_stock >= 0

\* C2: sell_product(id, q) on a stored id with q <= stock succeeds and lowers
\* the stock by exactly q; with q > stock it raises OutOfStockError and the
\* stock is what it was.
C2_SellExact ==
    (last.op = "sell_product" /\ Has(prev, last.product_id)) =>
        /\ Has(products, last.product_id)
        /\ IF last.quantity <= Stock(prev, last.product_id)
           THEN /\ last.err = NoError
                /\ Stock(products, last.product_id) =
                       Stock(prev, last.product_id) - last.quantity
           ELSE /\ last.err = OutOfStockError
                /\ Stock(products, last.product_id) =
                       Stock(prev, last.product_id)

\* A sale of the whole, positive stock has just left the product at zero.
C2_Witness ==
    /\ last.op = "sell_product"
    /\ Has(prev, last.product_id)
    /\ last.quantity > 0
    /\ last.quantity = Stock(prev, last.product_id)
    /\ Stock(products, last.product_id) = 0

\* C3: add_product(p) with a new id succeeds and list_all_products then
\* holds p; with an id already stored it raises DuplicateProductIDError and
\* the store, the stored product included, is what it was.
C3_AddProduct ==
    (last.op = "add_product") =>
        IF Has(prev, last.product.product_id)
        THEN /\ last.err = DuplicateProductIDError
             /\ products = prev
        ELSE /\ last.err = NoError
             /\ \E i \in 1 .. Len(list_all_products(products)) :
                    list_all_products(products)[i] = last.product
             /\ \A i \in 1 .. Len(prev) : products[i] = prev[i]

\* A product was just refused because a different product holds its id.
C3_Witness ==
    /\ last.op = "add_product"
    /\ Has(prev, last.product.product_id)
    /\ Get(prev, last.product.product_id) # last.product
    /\ last.err = DuplicateProductIDError

C5_RoundTrip ==
    (last.op = "save_to_file") =>
        LET r == load_from_file(<<>>, last.out)
        IN  /\ r.err = NoError
            /\ Keys(r.products) = Keys(products)
            /\ \A k \in Keys(products) :
                   Get(r.products, k) = Get(products, k)

\* A store with a Grocery and a Clothing of zero stock and zero price has
\* just been saved.
C5_Witness ==
    /\ last.op = "save_to_file"
    /\ \E i, j \in 1 .. Len(products) :
          /\ products[i].val.cls = "Grocery"
          /\ products[j].val.cls = "Clothing"
          /\ products[j].val.price = 0
          /\ products[j].val.quantity_in_stock = 0

\* C6: remove_expired_products removes exactly the Grocery products whose
\* expiry_date is before the current date (a date the clock showed during
\* the call) and leaves every other product as it was.
C6_RemovesExactlyExpired ==
    (last.op = "remove_expired_products") =>
        \E current \in last.start .. today :
            products =
                SelectSeq(prev, LAMBDA e :
                    ~(/\ e.val.cls = "Grocery"
                      /\ strptime(e.val.expiry_date) < current))

\* C7: within one remove_expired_products call two Grocery products with
\* the same expiry_date are both removed or both retained.
C7_SingleNow ==
    (last.op = "remove_expired_products") =>
        \A i, j \in 1 .. Len(prev) :
            (/\ prev[i].val.cls = "Grocery"
             /\ prev[j].val.cls = "Grocery"
             /\ prev[i].val.expiry_date = prev[j].val.expiry_date) =>
                (Has(products, prev[i].key) <=> Has(products, prev[j].key))

\* C8: a load_from_file that fails with InvalidProductDataError leaves the
\* store's product mapping exactly as it was before the call.
C8_LoadAtomic ==
    (last.op = "load_from_file" /\ last.err = InvalidProductDataError) =>
        products = prev

\* C9: every key of the store maps to one product, whose product_id is
\* that key; no two stored products share a product_id.
C9_UniqueKeys ==
    /\ \A i, j \in 1 .. Len(products) :
           products[i].key = products[j].key => i = j
    /\ \A i \in 1 .. Len(products) :
           products[i].val.product_id = products[i].key
    /\ \A i, j \in 1 .. Len(products) :
           products[i].val.product_id = products[j].val.product_id => i = j

\* A file holding two objects with one id has just been loaded over a store
\* that already held that id.
C9_Witness ==
    /\ last.op = "load_from_file"
    /\ last.err = NoError
    /\ last.text.items = <<RecElectronics, RecClothing>>
    /\ Has(prev, "E001")
    /\ Len(products) = 2

\* C10: restock_product(id, q) on a stored id raises the stock of that
\* product by exactly q; the keys, its other fields and every other product
\* are unchanged.
C10_RestockExact ==
    (last.op = "restock_product" /\ Has(prev, last.product_id)) =>
        /\ last.err = NoError
        /\ Len(products) = Len(prev)
        /\ \A i \in 1 .. Len(prev) :
              products[i] =
                IF prev[i].key = last.product_id
                THEN [prev[i] EXCEPT
                        !.val.quantity_in_stock = @ + last.quantity]
                ELSE prev[i]

\* One of two stored products has just been restocked by a positive amount.
C10_Witness ==
    /\ last.op = "restock_product"
    /\ Has(prev, last.product_id)
    /\ last.quantity > 0
    /\ Len(prev) = 2
    /\ Stock(products, last.product_id) > Stock(prev, last.product_id)

====
